---- MODULE Spec2Model ----
(***************************************************************************)
(* Model of src/src/packet/symmetrically_encrypted.js: the Key aggregate   *)
(* (function Key and its prototype methods) and the Symmetrically          *)
(* Encrypted Data packet (packet_symmetrically_encrypted).                 *)
(***************************************************************************)
EXTENDS Integers, Sequences, FiniteSets, TLC

VARIABLES
    packets,      \* Key.packets: the owned packet list
    op,           \* name of the Key method called last
    args,         \* its arguments
    ret,          \* what it returned or threw
    before,       \* Key.packets as it was when that method was called
    attempted,    \* indices of this.packets on which packet.decrypt was invoked
    encrypted,    \* container: this.encrypted
    cpackets,     \* container: this.packets
    cop,          \* name of the container method called last
    cargs,        \* its arguments
    cret,         \* what it returned or threw
    cbefore,      \* [encrypted, packets] when that method was called
    cprev,        \* the container method called before that one, with its arguments
    cstate,       \* Opaque / Decoded, as the data model names the two states
    prefixes      \* number of random prefixes drawn by crypto.getPrefixRandom

kvars == <<packets, op, args, ret, before, attempted>>
cvars == <<encrypted, cpackets, cop, cargs, cret, cbefore, cprev, cstate, prefixes>>
vars == <<packets, op, args, ret, before, attempted,
          encrypted, cpackets, cop, cargs, cret, cbefore, cprev, cstate, prefixes>>

-----------------------------------------------------------------------------
(* Bounds *)

MaxPackets == 3
\* longest inner packet list a caller assigns to the container
MaxInner == 2
\* longest inner packet list the container is let grow to
MaxStream == 4
\* number of encrypt calls, each drawing one random prefix
MaxEncrypts == 2

-----------------------------------------------------------------------------
(* Packet values *)

\* enums.packet tags used by Key
public_key == "public_key"
secret_key == "secret_key"
public_subkey == "public_subkey"
secret_subkey == "secret_subkey"
userid == "userid"
\* enums.packet.private_key: enums.packet has no such member, the lookup
\* yields undefined, which is the tag of no packet
private_key == "undefined"

\* enums.publicKey algorithms
rsa_encrypt_sign == "rsa_encrypt_sign"
rsa_sign == "rsa_sign"
dsa == "dsa"

\* JavaScript null, in the shape of a packet so that lists stay uniform
Null == [tag |-> "null", keyId |-> "-", algorithm |-> "-", pass |-> "-", secret |-> "none"]

\* Key material the packets are drawn from: the KeyID is derived from the
\* public material, so each algorithm comes with its own KeyID
KeyMaterial ==
    { [keyId |-> "k1", algorithm |-> rsa_encrypt_sign, pass |-> "p1"],
      [keyId |-> "k2", algorithm |-> dsa, pass |-> "p2"],
      [keyId |-> "k3", algorithm |-> rsa_sign, pass |-> "p1"] }

Passphrases == {"p1", "p2"}

PublicPacket(t, m) ==
    [tag |-> t, keyId |-> m.keyId, algorithm |-> m.algorithm, pass |-> "-", secret |-> "none"]

SecretPacket(t, m) ==
    [tag |-> t, keyId |-> m.keyId, algorithm |-> m.algorithm, pass |-> m.pass, secret |-> "locked"]

UserIdPacket == [tag |-> userid, keyId |-> "-", algorithm |-> "-", pass |-> "-", secret |-> "none"]

\* Packets a parsed packet list can hold
InitPackets ==
    {PublicPacket(t, m) : t \in {public_key, public_subkey}, m \in KeyMaterial}
    \cup {SecretPacket(t, m) : t \in {secret_key, secret_subkey}, m \in KeyMaterial}
    \cup {UserIdPacket}

Min(S) == CHOOSE x \in S : \A y \in S : x <= y

SeqsUpTo(S, n) == UNION {[1..k -> S] : k \in 0..n}

\* Candidate KeyID lists handed to the lookups
CandidateLists ==
    { <<>>, <<"k1">>, <<"k3">>, <<"k2", "k1">>, <<"k1", "k1">> }

\* Results
NoRet == [kind |-> "none", val |-> Null]
RetPacket(p) == [kind |-> "packet", val |-> p]
RetBool(b) == [kind |-> "bool", val |-> b]
RetList(l) == [kind |-> "list", val |-> l]
TypeError == [kind |-> "throw", val |-> "TypeError"]

-----------------------------------------------------------------------------
(* Key: selection *)

\* Key.prototype.getKeyPacket
RECURSIVE getKeyPacketFrom(_, _)
getKeyPacketFrom(ps, i) ==
    IF i > Len(ps) THEN Null
    ELSE IF ps[i].tag = public_key \/ ps[i].tag = secret_key THEN ps[i]
    ELSE getKeyPacketFrom(ps, i + 1)

getKeyPacket(ps) == getKeyPacketFrom(ps, 1)

\* packetlist.filterByTag, as the indices of the packets it keeps
filterByTagIdx(ps, tags) ==
    LET RECURSIVE Walk(_)
        Walk(i) ==
            IF i > Len(ps) THEN <<>>
            ELSE IF ps[i].tag \in tags THEN <<i>> \o Walk(i + 1)
            ELSE Walk(i + 1)
    IN Walk(1)

filterByTag(ps, tags) ==
    LET idx == filterByTagIdx(ps, tags)
    IN [k \in 1..Len(idx) |-> ps[idx[k]]]

\* Key.prototype.getSubkeyPackets
getSubkeyPackets(ps) ==
    LET RECURSIVE Walk(_)
        Walk(i) ==
            IF i > Len(ps) THEN <<>>
            ELSE IF ps[i].tag = public_subkey \/ ps[i].tag = secret_subkey
                 THEN <<ps[i]>> \o Walk(i + 1)
            ELSE Walk(i + 1)
    IN Walk(1)

\* Key.prototype.getAllKeyPackets
getAllKeyPackets(ps) == <<getKeyPacket(ps)>> \o getSubkeyPackets(ps)

\* Key.prototype.getKeyIds: keys[i].getKeyId() on null throws
getKeyIds(ps) ==
    LET keys == getAllKeyPackets(ps)
    IN IF \E i \in 1..Len(keys) : keys[i] = Null
       THEN TypeError
       ELSE RetList([i \in 1..Len(keys) |-> keys[i].keyId])

\* keyId.equals(other)
KeyIdEquals(a, b) == a = b

\* A lookup with the loops exchanged: the first candidate that some packet has
findKeyByCandidate(keys, keyIds) ==
    LET RECURSIVE Walk(_)
        Walk(j) ==
            IF j > Len(keyIds) THEN Null
            ELSE IF \E i \in 1..Len(keys) : KeyIdEquals(keys[i].keyId, keyIds[j])
                 THEN keys[Min({i \in 1..Len(keys) : KeyIdEquals(keys[i].keyId, keyIds[j])})]
            ELSE Walk(j + 1)
    IN Walk(1)

\* findKey
findKey(keys, keyIds) ==
    LET RECURSIVE Walk(_)
        Walk(i) ==
            IF i > Len(keys) THEN Null
            ELSE IF \E j \in 1..Len(keyIds) : KeyIdEquals(keys[i].keyId, keyIds[j])
                 THEN keys[i]
            ELSE Walk(i + 1)
    IN Walk(1)

\* Key.prototype.getPublicKeyPacket
getPublicKeyPacket(ps, keyIds) ==
    findKey(filterByTag(ps, {public_key, public_subkey}), keyIds)

\* Key.prototype.getPrivateKeyPacket
getPrivateKeyPacket(ps, keyIds) ==
    findKey(filterByTag(ps, {secret_key, secret_subkey}), keyIds)

\* Key.prototype.isPublic
isPublic(ps) == Len(filterByTag(ps, {public_key})) # 0

\* Key.prototype.isPrivate
isPrivate(ps) == Len(filterByTag(ps, {private_key})) # 0

-----------------------------------------------------------------------------
(* Key: conversion to a public key *)

\* packet.writePublicKey: the public portion of a key packet, without the
\* secret material
writePublicKey(p) == [keyId |-> p.keyId, algorithm |-> p.algorithm]

\* new packet.public_key() / new packet.public_subkey(), then read(bytes)
readPublicKey(t, bytes) == PublicPacket(t, bytes)

\* A conversion that forgets the subkeys
toPublicPrimaryOnly(ps) ==
    [i \in 1..Len(ps) |->
        IF ps[i].tag = secret_key
        THEN readPublicKey(public_key, writePublicKey(ps[i]))
        ELSE ps[i]]

\* Key.prototype.toPublic: the loop over this.packets, replacing in place
toPublic(ps) ==
    LET First(p) == IF p.tag = secret_key
                    THEN readPublicKey(public_key, writePublicKey(p))
                    ELSE p
        Second(p) == IF p.tag = secret_subkey
                     THEN readPublicKey(public_subkey, writePublicKey(p))
                     ELSE p
    IN [i \in 1..Len(ps) |-> Second(First(ps[i]))]

-----------------------------------------------------------------------------
(* Key: key packets by capability *)

\* Key.prototype.getSigningKeyPacket: keys[i].algorithm on null throws
getSigningKeyPacket(ps) ==
    LET signing == {rsa_encrypt_sign, rsa_sign, dsa}
        keys == getAllKeyPackets(ps)
        RECURSIVE Walk(_)
        Walk(i) ==
            IF i > Len(keys) THEN RetPacket(Null)
            ELSE IF keys[i] = Null THEN TypeError
            ELSE IF keys[i].algorithm \in signing THEN RetPacket(keys[i])
            ELSE Walk(i + 1)
    IN Walk(1)

\* isValidEncryptionKey inside getEncryptionKeyPacket (key is not null)
isValidEncryptionKey(key) == key.algorithm # dsa /\ key.algorithm # rsa_sign

\* Key.prototype.getEncryptionKeyPacket: isValidEncryptionKey(null) throws
getEncryptionKeyPacket(ps) ==
    LET subkeys == getSubkeyPackets(ps)
        primaryKey == getKeyPacket(ps)
        RECURSIVE Walk(_)
        Walk(j) ==
            IF j > Len(subkeys)
            THEN IF primaryKey = Null THEN TypeError
                 ELSE IF isValidEncryptionKey(primaryKey) THEN RetPacket(primaryKey)
                 ELSE RetPacket(Null)
            ELSE IF isValidEncryptionKey(subkeys[j]) THEN RetPacket(subkeys[j])
            ELSE Walk(j + 1)
    IN Walk(1)

-----------------------------------------------------------------------------
(* Key: decryption of the secret packets *)

\* packet.decrypt(passphrase) of a secret key packet: whether it succeeds
packetDecryptOk(p, passphrase) == p.secret = "unlocked" \/ p.pass = passphrase

\* packet.decrypt(passphrase): the packet afterwards
packetDecrypt(p, passphrase) ==
    IF packetDecryptOk(p, passphrase) THEN [p EXCEPT !.secret = "unlocked"] ELSE p

\* A loop that goes on after a failure and reports the last packet's outcome
decryptNoStop(ps, passphrase) ==
    LET keys == filterByTagIdx(ps, {secret_key, secret_subkey})
        sec == {keys[k] : k \in 1..Len(keys)}
    IN [packets |-> [i \in 1..Len(ps) |->
                        IF i \in sec THEN packetDecrypt(ps[i], passphrase) ELSE ps[i]],
        ret |-> RetBool(keys = <<>> \/ packetDecryptOk(ps[keys[Len(keys)]], passphrase)),
        attempted |-> keys]

\* Key.prototype.decrypt: [packets, ret, attempted] after the call
decrypt(ps, passphrase) ==
    LET keys == filterByTagIdx(ps, {secret_key, secret_subkey})
        RECURSIVE Loop(_, _, _)
        Loop(cur, i, att) ==
            IF i > Len(keys)
            THEN [packets |-> cur, ret |-> RetBool(TRUE), attempted |-> att]
            ELSE LET n == keys[i]
                     success == packetDecryptOk(cur[n], passphrase)
                     nxt == [cur EXCEPT ![n] = packetDecrypt(cur[n], passphrase)]
                 IN IF ~success
                    THEN [packets |-> nxt, ret |-> RetBool(FALSE),
                          attempted |-> Append(att, n)]
                    ELSE Loop(nxt, i + 1, Append(att, n))
    IN Loop(ps, 1, <<>>)

\* A loop that decrypts every secret packet, whatever its KeyID
decryptKeyPacketAll(ps, keyIds, passphrase) == decrypt(ps, passphrase)

\* Key.prototype.decryptKeyPacket: [packets, ret, attempted] after the call
decryptKeyPacket(ps, keyIds, passphrase) ==
    LET keys == filterByTagIdx(ps, {secret_key, secret_subkey})
        \* the inner loop over keyIds for packet n, from position j
        RECURSIVE Inner(_, _, _, _)
        Inner(cur, n, j, att) ==
            IF j > Len(keyIds)
            THEN [packets |-> cur, ok |-> TRUE, attempted |-> att]
            ELSE IF KeyIdEquals(cur[n].keyId, keyIds[j])
                 THEN LET success == packetDecryptOk(cur[n], passphrase)
                          nxt == [cur EXCEPT ![n] = packetDecrypt(cur[n], passphrase)]
                      IN IF ~success
                         THEN [packets |-> nxt, ok |-> FALSE, attempted |-> Append(att, n)]
                         ELSE Inner(nxt, n, j + 1, Append(att, n))
            ELSE Inner(cur, n, j + 1, att)
        RECURSIVE Loop(_, _, _)
        Loop(cur, i, att) ==
            IF i > Len(keys)
            THEN [packets |-> cur, ret |-> RetBool(TRUE), attempted |-> att]
            ELSE LET r == Inner(cur, keys[i], 1, att)
                 IN IF ~r.ok
                    THEN [packets |-> r.packets, ret |-> RetBool(FALSE),
                          attempted |-> r.attempted]
                    ELSE Loop(r.packets, i + 1, r.attempted)
    IN Loop(ps, 1, <<>>)

-----------------------------------------------------------------------------
(* Key: the operations *)

NoArgs == [keyIds |-> <<>>, passphrase |-> "-"]

\* function Key(packetlist): a parsed list, or an empty one
KeyInit(universe) ==
    /\ packets \in SeqsUpTo(universe, MaxPackets)
    /\ op = "new"
    /\ args = NoArgs
    /\ ret = NoRet
    /\ before = packets
    /\ attempted = <<>>

\* A method that only reads this.packets
Query(name, a, r) ==
    /\ op' = name
    /\ args' = a
    /\ ret' = r
    /\ before' = packets
    /\ attempted' = <<>>
    /\ UNCHANGED packets
    /\ UNCHANGED cvars

GetKeyPacket == Query("getKeyPacket", NoArgs, RetPacket(getKeyPacket(packets)))

GetSubkeyPackets == Query("getSubkeyPackets", NoArgs, RetList(getSubkeyPackets(packets)))

GetAllKeyPackets == Query("getAllKeyPackets", NoArgs, RetList(getAllKeyPackets(packets)))

GetKeyIds == Query("getKeyIds", NoArgs, getKeyIds(packets))

GetPublicKeyPacket ==
    \E ids \in CandidateLists :
        Query("getPublicKeyPacket", [keyIds |-> ids, passphrase |-> "-"],
              RetPacket(getPublicKeyPacket(packets, ids)))

GetPrivateKeyPacket ==
    \E ids \in CandidateLists :
        Query("getPrivateKeyPacket", [keyIds |-> ids, passphrase |-> "-"],
              RetPacket(getPrivateKeyPacket(packets, ids)))

IsPublic == Query("isPublic", NoArgs, RetBool(isPublic(packets)))

IsPrivate == Query("isPrivate", NoArgs, RetBool(isPrivate(packets)))

GetSigningKeyPacket == Query("getSigningKeyPacket", NoArgs, getSigningKeyPacket(packets))

GetEncryptionKeyPacket ==
    Query("getEncryptionKeyPacket", NoArgs, getEncryptionKeyPacket(packets))

ToPublic ==
    /\ op' = "toPublic"
    /\ args' = NoArgs
    /\ packets' = toPublic(packets)
    /\ ret' = RetList(packets')
    /\ before' = packets
    /\ attempted' = <<>>
    /\ UNCHANGED cvars

Decrypt ==
    \E passphrase \in Passphrases :
        LET r == decrypt(packets, passphrase)
        IN /\ op' = "decrypt"
           /\ args' = [keyIds |-> <<>>, passphrase |-> passphrase]
           /\ packets' = r.packets
           /\ ret' = r.ret
           /\ before' = packets
           /\ attempted' = r.attempted
           /\ UNCHANGED cvars

DecryptKeyPacket ==
    \E ids \in CandidateLists, passphrase \in Passphrases :
        LET r == decryptKeyPacket(packets, ids, passphrase)
        IN /\ op' = "decryptKeyPacket"
           /\ args' = [keyIds |-> ids, passphrase |-> passphrase]
           /\ packets' = r.packets
           /\ ret' = r.ret
           /\ before' = packets
           /\ attempted' = r.attempted
           /\ UNCHANGED cvars

-----------------------------------------------------------------------------
(* Symmetrically Encrypted Data packet: values *)

\* Packets of the inner stream
Literals == {"lit1", "lit2"}

\* Bytes are a sequence of chunks; a chunk is the encoding of one packet, or
\* bytes that are no packet
Chunk(p) == [tag |-> "literal", body |-> p]
BadChunk == [tag |-> "bad", body |-> "-"]

\* packetlist.write: the packets' encodings, in order
packetlistWrite(list) == [i \in 1..Len(list) |-> Chunk(list[i])]

\* packetlist.read: parses packet after packet and pushes each onto the
\* receiving list; malformed bytes throw. [list, ok] afterwards
packetlistRead(list, bytes) ==
    LET RECURSIVE Parse(_, _)
        Parse(cur, i) ==
            IF i > Len(bytes) THEN [list |-> cur, ok |-> TRUE]
            ELSE IF bytes[i].tag = "bad" THEN [list |-> cur, ok |-> FALSE]
            ELSE Parse(Append(cur, bytes[i].body), i + 1)
    IN Parse(list, 1)

\* this.packets before anyone assigns it
Undefined == [defined |-> FALSE, list |-> <<>>]
Defined(list) == [defined |-> TRUE, list |-> list]

SymAlgos == {"aes128"}
SessionKeys == {"K1", "K2"}

\* this.encrypted = null
NullBytes == [algo |-> "null", key |-> "-", prefix |-> 0, data |-> <<>>]
\* bytes shorter than a CFB frame
JunkBytes == [algo |-> "junk", key |-> "-", prefix |-> 0, data |-> <<>>]

\* crypto.cfb.encrypt(prefix, algo, data, key, true)
cfbEncrypt(prefix, algo, data, key) ==
    [algo |-> algo, key |-> key, prefix |-> prefix, data |-> data]

\* crypto.cfb.decrypt(algo, key, bytes, true): [ok, data]; fails on null, on a
\* frame too short and on a failed resync check (another key or algorithm)
cfbDecrypt(algo, key, bytes) ==
    IF bytes.algo = algo /\ bytes.key = key
    THEN [ok |-> TRUE, data |-> bytes.data]
    ELSE [ok |-> FALSE, data |-> <<>>]

\* Ciphertexts a caller hands to read(): made elsewhere, prefix 0
ExternalBytes ==
    { cfbEncrypt(0, "aes128", packetlistWrite(<<"lit1">>), "K1"),
      cfbEncrypt(0, "aes128", packetlistWrite(<<"lit1">>) \o <<BadChunk>>, "K1"),
      cfbEncrypt(0, "aes128", packetlistWrite(<<"lit2", "lit1">>), "K2"),
      JunkBytes }

CNoArgs == [algo |-> "-", key |-> "-"]
COk == [kind |-> "ok", val |-> NullBytes]
CThrow == [kind |-> "throw", val |-> NullBytes]
CBytes(b) == [kind |-> "bytes", val |-> b]

-----------------------------------------------------------------------------
(* Symmetrically Encrypted Data packet: the operations *)

\* packet_symmetrically_encrypted(): the constructor
ContainerInit ==
    /\ encrypted = NullBytes
    /\ cpackets = Undefined
    /\ cop = "new"
    /\ cargs = CNoArgs
    /\ cret = COk
    /\ cbefore = [encrypted |-> NullBytes, packets |-> Undefined]
    /\ cprev = [op |-> "-", args |-> CNoArgs]
    /\ cstate = "Opaque"
    /\ prefixes = 0

Called(name, a) ==
    /\ cop' = name
    /\ cargs' = a
    /\ cbefore' = [encrypted |-> encrypted, packets |-> cpackets]
    /\ cprev' = [op |-> cop, args |-> cargs]
    /\ UNCHANGED kvars

\* The caller assigns or edits this.packets
SetPackets ==
    \E list \in SeqsUpTo(Literals, MaxInner) :
        /\ Called("setPackets", CNoArgs)
        /\ cpackets' = Defined(list)
        /\ cret' = COk
        /\ cstate' = "Decoded"
        /\ UNCHANGED <<encrypted, prefixes>>

\* this.read
Read ==
    \E bytes \in ExternalBytes :
        /\ Called("read", CNoArgs)
        /\ encrypted' = bytes
        /\ cret' = COk
        /\ cstate' = "Opaque"
        /\ UNCHANGED <<cpackets, prefixes>>

\* this.write
Write ==
    /\ Called("write", CNoArgs)
    /\ cret' = CBytes(encrypted)
    /\ UNCHANGED <<encrypted, cpackets, cstate, prefixes>>

\* this.decrypt
ContainerDecrypt ==
    \E algo \in SymAlgos, key \in SessionKeys :
        LET decrypted == cfbDecrypt(algo, key, encrypted)
            r == packetlistRead(cpackets.list, decrypted.data)
        IN /\ decrypted.ok /\ cpackets.defined => Len(r.list) <= MaxStream
           /\ Called("decrypt", [algo |-> algo, key |-> key])
           /\ IF ~decrypted.ok \/ ~cpackets.defined
              THEN /\ cret' = CThrow
                   /\ UNCHANGED <<cpackets, cstate>>
              ELSE /\ cpackets' = Defined(r.list)
                   /\ cret' = IF r.ok THEN COk ELSE CThrow
                   /\ cstate' = IF r.ok THEN "Decoded" ELSE cstate
           /\ UNCHANGED <<encrypted, prefixes>>

\* this.encrypt
ContainerEncrypt ==
    \E algo \in SymAlgos, key \in SessionKeys :
        /\ prefixes < MaxEncrypts
        /\ Called("encrypt", [algo |-> algo, key |-> key])
        /\ IF ~cpackets.defined
           THEN /\ cret' = CThrow
                /\ UNCHANGED <<encrypted, cstate, prefixes>>
           ELSE /\ prefixes' = prefixes + 1
                /\ encrypted' = cfbEncrypt(prefixes', algo, packetlistWrite(cpackets.list), key)
                /\ cret' = COk
                /\ cstate' = "Opaque"
        /\ UNCHANGED cpackets

-----------------------------------------------------------------------------
(* Specifications *)

\* Packet lists for the role questions: every tag, two keys
RolePackets ==
    { PublicPacket(public_key, [keyId |-> "k1", algorithm |-> rsa_encrypt_sign]),
      PublicPacket(public_subkey, [keyId |-> "k2", algorithm |-> dsa]),
      UserIdPacket }
    \cup { SecretPacket(t, m) : t \in {secret_key, secret_subkey},
                                m \in {x \in KeyMaterial : x.keyId \in {"k1", "k2"}} }

\* Packet lists for the lookups by KeyID: every key tag, two keys (k3 is
\* the KeyID of no packet)
FindPackets ==
    { PublicPacket(t, m) : t \in {public_key, public_subkey},
                           m \in {x \in KeyMaterial : x.keyId \in {"k1", "k2"}} }
    \cup { SecretPacket(t, m) : t \in {secret_key, secret_subkey},
                                m \in {x \in KeyMaterial : x.keyId \in {"k1", "k2"}} }
    \cup { UserIdPacket }

\* Packet lists for decryption: secret packets under two passphrases, and
\* packets that hold no secret
DecryptPackets ==
    { SecretPacket(t, m) : t \in {secret_key, secret_subkey},
                           m \in {x \in KeyMaterial : x.keyId \in {"k1", "k2"}} }
    \cup { PublicPacket(public_subkey, [keyId |-> "k1", algorithm |-> rsa_encrypt_sign]),
           UserIdPacket }

\* Role and conversion: isPublic, isPrivate, toPublic, decrypt
KeyRoleInit == KeyInit(RolePackets) /\ ContainerInit
KeyRoleNext == IsPublic \/ IsPrivate \/ ToPublic \/ Decrypt
SpecKeyRole == KeyRoleInit /\ [][KeyRoleNext]_vars

\* Lookup by KeyID
KeyFindInit == KeyInit(FindPackets) /\ ContainerInit
KeyFindNext == GetPublicKeyPacket \/ GetPrivateKeyPacket
SpecKeyFind == KeyFindInit /\ [][KeyFindNext]_vars

\* Selection of key packets
KeySelectInit == KeyInit(InitPackets) /\ ContainerInit
KeySelectNext ==
    \/ GetKeyPacket
    \/ GetSubkeyPackets
    \/ GetAllKeyPackets
    \/ GetKeyIds
    \/ GetSigningKeyPacket
    \/ GetEncryptionKeyPacket
SpecKeySelect == KeySelectInit /\ [][KeySelectNext]_vars

\* Decryption of the secret packets
KeyDecryptInit == KeyInit(DecryptPackets) /\ ContainerInit
KeyDecryptNext == Decrypt \/ DecryptKeyPacket
SpecKeyDecrypt == KeyDecryptInit /\ [][KeyDecryptNext]_vars

\* A Symmetrically Encrypted Data packet
ContainerOnlyInit == ContainerInit /\ KeyInit({})
ContainerNext == SetPackets \/ Read \/ Write \/ ContainerDecrypt \/ ContainerEncrypt
SpecContainer == ContainerOnlyInit /\ [][ContainerNext]_vars

-----------------------------------------------------------------------------
(* Properties of the Key aggregate *)

SecretTags == {secret_key, secret_subkey}
Elems(q) == {q[k] : k \in 1..Len(q)}

\* C1: after toPublic no packet tagged secret_key or secret_subkey remains,
\* each secret packet is replaced at its own position by the public packet of
\* the same key (length and the other packets unchanged), and a second
\* toPublic leaves the packet list as the first one left it.
C1_ToPublic ==
    op = "toPublic" =>
        /\ Len(packets) = Len(before)
        /\ \A i \in 1..Len(packets) :
            /\ packets[i].tag \notin SecretTags
            /\ before[i].tag = secret_key =>
                   packets[i] = [tag |-> public_key, keyId |-> before[i].keyId,
                                 algorithm |-> before[i].algorithm,
                                 pass |-> "-", secret |-> "none"]
            /\ before[i].tag = secret_subkey =>
                   packets[i] = [tag |-> public_subkey, keyId |-> before[i].keyId,
                                 algorithm |-> before[i].algorithm,
                                 pass |-> "-", secret |-> "none"]
            /\ before[i].tag \notin SecretTags => packets[i] = before[i]
        /\ toPublic(packets) = packets

\* C1 witness: toPublic has acted on a list holding a secret primary key, a
\* secret subkey and a packet that is no key
C1_Witness ==
    /\ op = "toPublic"
    /\ \E i, j, k \in 1..Len(before) :
        /\ before[i].tag = secret_key
        /\ before[j].tag = secret_subkey
        /\ before[k].tag = userid

\* C2: isPublic() is true iff some owned packet is tagged public_key, and
\* isPrivate() is true iff some owned packet is tagged secret_key.
C2_Roles ==
    /\ op = "isPublic" =>
           ret.val = (\E i \in 1..Len(packets) : packets[i].tag = public_key)
    /\ op = "isPrivate" =>
           ret.val = (\E i \in 1..Len(packets) : packets[i].tag = secret_key)

\* The packets of a role whose KeyID equals some candidate, by position
RoleMatches(ps, role, keyIds) ==
    {i \in 1..Len(ps) :
        /\ ps[i].tag \in role
        /\ \E j \in 1..Len(keyIds) : ps[i].keyId = keyIds[j]}

\* C3: getPublicKeyPacket / getPrivateKeyPacket return null when no packet of
\* the requested role has a KeyID among the candidates (an empty candidate
\* list included), and otherwise the first packet in stream order, among the
\* packets of that role, whose KeyID is among the candidates; never a packet
\* of the other role.
C3_FindByKeyIds ==
    op \in {"getPublicKeyPacket", "getPrivateKeyPacket"} =>
        LET role == IF op = "getPublicKeyPacket"
                    THEN {public_key, public_subkey}
                    ELSE {secret_key, secret_subkey}
            m == RoleMatches(packets, role, args.keyIds)
        IN /\ ret.kind = "packet"
           /\ ret.val.tag \in role \cup {"null"}
           /\ m = {} => ret.val = Null
           /\ m # {} => ret.val = packets[Min(m)]

\* C3 witness: a lookup among the secret packets found one of two matching
\* packets, the first in stream order being the second of the candidates, with
\* a public packet of a matching KeyID ahead of it
C3_Witness ==
    /\ op = "getPrivateKeyPacket"
    /\ Len(args.keyIds) = 2
    /\ args.keyIds[1] # args.keyIds[2]
    /\ Cardinality(RoleMatches(packets, SecretTags, args.keyIds)) >= 2
    /\ ret.val # Null
    /\ ret.val.keyId = args.keyIds[2]
    /\ packets[1].tag \in {public_key, public_subkey}
    /\ packets[1].keyId = args.keyIds[1]

\* Positions of the secret packets of a list
SecretIdx(ps) == {i \in 1..Len(ps) : ps[i].tag \in SecretTags}

\* C6: Key.decrypt(passphrase) returns true iff the decrypt of every secret
\* packet succeeds; when one fails it returns false, the secret packets after
\* the first failing one are not attempted, and the ones before it stay
\* decrypted.
C6_Decrypt ==
    op = "decrypt" =>
        LET sec == SecretIdx(before)
            fails == {i \in sec : ~packetDecryptOk(before[i], args.passphrase)}
        IN /\ ret.kind = "bool"
           /\ ret.val = (fails = {})
           /\ Len(packets) = Len(before)
           /\ \A i \in 1..Len(before) : i \notin sec => packets[i] = before[i]
           /\ fails = {} =>
                  /\ Elems(attempted) = sec
                  /\ \A i \in sec : packets[i].secret = "unlocked"
           /\ fails # {} =>
                  LET f == Min(fails)
                  IN /\ attempted # <<>> /\ attempted[Len(attempted)] = f
                     /\ packets[f] = before[f]
                     /\ \A i \in sec :
                         /\ i < f => i \in Elems(attempted) /\ packets[i].secret = "unlocked"
                         /\ i > f => i \notin Elems(attempted) /\ packets[i] = before[i]

\* C6 witness: a decrypt failed on the second of three locked secret packets:
\* the first one is now decrypted, the third one still locked
C6_Witness ==
    /\ op = "decrypt"
    /\ ret.val = FALSE
    /\ Len(before) = 3
    /\ \A i \in 1..3 : before[i].tag \in SecretTags /\ before[i].secret = "locked"
    /\ packets[1].secret = "unlocked"
    /\ attempted = <<1, 2>>
    /\ packets[3].secret = "locked"
    /\ packetDecryptOk(before[3], args.passphrase)

\* The secret packets whose KeyID is among the candidates, by position
KeyIdMatches(ps, keyIds) == RoleMatches(ps, SecretTags, keyIds)

\* C9: decryptKeyPacket(keyIds, passphrase) invokes the per-packet decrypt only
\* on secret packets whose KeyID is one of keyIds; every other packet, a secret
\* packet of another KeyID included, is left as it was; and the call returns
\* false as soon as a matching packet fails to decrypt.
C9_DecryptKeyPacket ==
    op = "decryptKeyPacket" =>
        LET m == KeyIdMatches(before, args.keyIds)
            fails == {i \in m : ~packetDecryptOk(before[i], args.passphrase)}
        IN /\ ret.kind = "bool"
           /\ Elems(attempted) \subseteq m
           /\ Len(packets) = Len(before)
           /\ \A i \in 1..Len(before) : i \notin m => packets[i] = before[i]
           /\ ret.val = (fails = {})
           /\ fails = {} => Elems(attempted) = m
           /\ fails # {} =>
                  LET f == Min(fails)
                  IN /\ attempted # <<>> /\ attempted[Len(attempted)] = f
                     /\ \A i \in m : i > f => i \notin Elems(attempted) /\ packets[i] = before[i]

\* C9 witness: a call failed on the first matching packet, did not go on to a
\* later matching one, and left alone a locked secret packet of another KeyID
\* that the passphrase opens
C9_Witness ==
    /\ op = "decryptKeyPacket"
    /\ ret.val = FALSE
    /\ Len(attempted) = 1
    /\ \E j \in KeyIdMatches(before, args.keyIds) : j > attempted[1]
    /\ \E i \in SecretIdx(before) :
        /\ i \notin KeyIdMatches(before, args.keyIds)
        /\ before[i].secret = "locked"
        /\ packetDecryptOk(before[i], args.passphrase)
        /\ packets[i] = before[i]

\* What encryptionKeyPacket is to return: the first subkey in stream order
\* that is neither DSA nor RSA-sign-only, else the primary key if it is
\* neither, else null
ExpectedEncryptionKey(ps) ==
    LET ok(p) == p.algorithm \notin {dsa, rsa_sign}
        subs == {i \in 1..Len(ps) : ps[i].tag \in {public_subkey, secret_subkey} /\ ok(ps[i])}
        prim == {i \in 1..Len(ps) : ps[i].tag \in {public_key, secret_key}}
    IN IF subs # {} THEN ps[Min(subs)]
       ELSE IF prim # {} /\ ok(ps[Min(prim)]) THEN ps[Min(prim)]
       ELSE Null

\* C7: getEncryptionKeyPacket() returns the first subkey in stream order whose
\* algorithm is neither DSA nor RSA-sign-only; when no subkey qualifies, the
\* primary key if its algorithm is neither; and null otherwise.
C7_EncryptionKeyPacket ==
    op = "getEncryptionKeyPacket" =>
        /\ ret.kind = "packet"
        /\ ret.val = ExpectedEncryptionKey(packets)

\* C10: without a primary key packet, getAllKeyPackets, getKeyIds,
\* getSigningKeyPacket and getEncryptionKeyPacket do not throw on the absent
\* primary key, and none returns a list holding it.
C10_NoPrimary ==
    (/\ op \in {"getAllKeyPackets", "getKeyIds", "getSigningKeyPacket",
                "getEncryptionKeyPacket"}
     /\ \A i \in 1..Len(packets) : packets[i].tag \notin {public_key, secret_key}) =>
        /\ ret.kind # "throw"
        /\ op = "getAllKeyPackets" => \A k \in 1..Len(ret.val) : ret.val[k] # Null

-----------------------------------------------------------------------------
(* Properties of the Symmetrically Encrypted Data packet *)

\* C4: encrypt(algorithm, key) followed by decrypt(algorithm, key) on the same
\* container leaves its packet list equal to the one it held: same packets,
\* same order, nothing added.
C4_RoundTrip ==
    (/\ cop = "decrypt"
     /\ cprev.op = "encrypt"
     /\ cprev.args = cargs
     /\ cbefore.packets.defined) =>
        /\ cret.kind = "ok"
        /\ cpackets = cbefore.packets

\* C5: when decrypt fails, on the cipher or on the parse of the decrypted
\* bytes, the container is as it was before the call: same ciphertext, same
\* packet list.
C5_FailedDecrypt ==
    (cop = "decrypt" /\ cret.kind = "throw") =>
        /\ encrypted = cbefore.encrypted
        /\ cpackets = cbefore.packets

\* C8: write() on a container in the Decoded state throws or returns an
\* encryption of the current packet list made by this call (under a prefix
\* drawn by it); it never returns bytes stored before.
C8_WriteDecoded ==
    (cop = "write" /\ cstate = "Decoded") =>
        \/ cret.kind = "throw"
        \/ /\ cret.kind = "bytes"
           /\ cret.val.algo \in SymAlgos
           /\ cret.val.data = packetlistWrite(cpackets.list)
           /\ cret.val.prefix = prefixes
           /\ cret.val # cbefore.encrypted

====
